---------------------------- MODULE Spec2Model ----------------------------
(***************************************************************************)
(* LastGuardian (src/last-guardian.py): the last-train search.             *)
(*                                                                         *)
(* One behaviour is one call of analyze_escape_plan.  Every step is one    *)
(* round trip to the route service (get_transit_route) together with the   *)
(* code that runs between that query and the next one.                     *)
(*                                                                         *)
(* Time.  An instant is an integer number of ticks since local (KST)       *)
(* midnight of day 0; a tick is 1/8 second.  The window 20:30 -> 02:00 is  *)
(* 19800 s wide, so its six halvings (9900 s ... 309.375 s) are whole      *)
(* numbers of ticks and `left + (right - left) / 2` is exact, as it is on  *)
(* Python's microsecond datetimes.                                         *)
(*                                                                         *)
(* Clock.  The run reads datetime.now(KST) four times, seconds apart:     *)
(* in analyze_escape_plan, in each find_last_train_time call and in        *)
(* find_recommended_time.  The model gives the four readings one value,    *)
(* `now`, and keeps each call's own copy (fnow, log[m].now).               *)
(*                                                                         *)
(* Optional values (Python None) are sequences: <<>> is None, <<x>> is x.  *)
(***************************************************************************)
EXTENDS Integers, Sequences, FiniteSets, TLC

-----------------------------------------------------------------------------
(* Units of time *)

TicksPerSecond == 8

Second == TicksPerSecond
Minute == 60 * Second
Hour   == 60 * Minute
Day    == 24 * Hour

\* The instant hh:mm:ss of day d.
At(d, hh, mm, ss) == d * Day + hh * Hour + mm * Minute + ss * Second

\* datetime.hour, and the local midnight that datetime.replace(hour=..) keeps.
HourOf(t)   == (t % Day) \div Hour
Midnight(t) == t - (t % Day)

\* Python None and a present value.
None      == <<>>
Some(x)   == <<x>>
IsNone(o) == o = <<>>
Val(o)    == o[1]

\* int(x / y) for y > 0: Python's int() truncates toward zero.
IntTrunc(x, y) == IF x >= 0 THEN x \div y ELSE -((-x) \div y)

-----------------------------------------------------------------------------
(* Program constants *)

MaxTotalMin == 210
MaxWaitMin  == 80
\* One iteration short: range(5).
MutFiveSteps == 6 - 1

\* A bisection of seven iterations.
MutSevenSteps == 6 + 1

BisectSteps == 6
\* A scan in steps of 20 minutes.
MutScanStepTwenty == 30 - 10

ScanStepMin == 30
StartHour   == 20
StartMinute == 30
EndHour     == 2

-----------------------------------------------------------------------------
(* The route service's answers *)

\* What get_transit_route returns, as far as the program reads it:
\*   kind     "none"  the call failed (timeout, non-200, exception): None
\*            "empty" a JSON body without routes
\*            "route" a body whose routes[0] the program analyses
\*   arrival  arrivalTime of the last transit step, or None (no transit step)
\*   firstDep departureTime of the first transit step, or None
\*   subway   some step's vehicle type is SUBWAY or RAIL
\*   nightBus some BUS step's line name starts with N
NoResult == [kind |-> "none",  arrival |-> None, firstDep |-> None,
             subway |-> FALSE, nightBus |-> FALSE]
NoRoutes == [kind |-> "empty", arrival |-> None, firstDep |-> None,
             subway |-> FALSE, nightBus |-> FALSE]
Route(arr, dep, sub, nbus) ==
    [kind |-> "route", arrival |-> arr, firstDep |-> dep,
     subway |-> sub, nightBus |-> nbus]


\* A test that only sees a failed call: `if not data`.
MutHasRoutesAnyBody(result) == result.kind # "none"

\* The route exists: what analyze_escape_plan and is_valid_route test first
\* (not data or "routes" not in data or len(data["routes"]) == 0).
HasRoutes(result) == result.kind = "route"

get_arrival_time(result) ==
    IF HasRoutes(result) THEN result.arrival ELSE None

get_first_departure_time(result) ==
    IF HasRoutes(result) THEN result.firstDep ELSE None

has_night_bus(result) == HasRoutes(result) /\ result.nightBus

has_subway(result) == HasRoutes(result) /\ result.subway

-----------------------------------------------------------------------------
(* The steps of routes[0].legs[0] *)

\* A time string of a step: None when the key is absent or empty, <<t>> when
\* it has the format %Y-%m-%dT%H:%M:%SZ, Malformed otherwise.
Malformed == << 0, 0 >>

\* parse_transit_time: the instant, or None on ValueError.
parse_transit_time(time_str) == IF Len(time_str) = 1 THEN time_str ELSE None

\* A step without transitDetails (a walk), and a step with them: the type
\* of its vehicle, whether the name of its line starts with N, and the
\* departureTime and arrivalTime of its stopDetails.
WalkStep == [transit |-> FALSE, vehicle |-> "WALK", nameN |-> FALSE,
             departureTime |-> None, arrivalTime |-> None]
TransitStep(v, n, d, a) ==
    [transit |-> TRUE, vehicle |-> v, nameN |-> n,
     departureTime |-> d, arrivalTime |-> a]

\* Lines 90-96: the first step that has a departureTime, parsed.
FirstDepartureOfSteps(steps) ==
    LET has == { k \in 1..Len(steps) :
                   steps[k].transit /\ ~IsNone(steps[k].departureTime) }
    IN  IF has = {} THEN None
        ELSE parse_transit_time(
                 steps[CHOOSE k \in has : \A j \in has : k <= j].departureTime)

\* Lines 105-111: the last step that has an arrivalTime, parsed.
ArrivalOfSteps(steps) ==
    LET has == { k \in 1..Len(steps) :
                   steps[k].transit /\ ~IsNone(steps[k].arrivalTime) }
    IN  IF has = {} THEN None
        ELSE parse_transit_time(
                 steps[CHOOSE k \in has : \A j \in has : k >= j].arrivalTime)

\* Lines 120-129: vehicle_type == "BUS" and name.startswith("N").
NightBusInSteps(steps) ==
    \E k \in 1..Len(steps) :
        steps[k].transit /\ steps[k].vehicle = "BUS" /\ steps[k].nameN

\* Lines 138-145: vehicle_type in ("SUBWAY", "RAIL").
SubwayInSteps(steps) ==
    \E k \in 1..Len(steps) :
        steps[k].transit /\ steps[k].vehicle \in { "SUBWAY", "RAIL" }

\* What the four readers see of an answer of the given kind and steps.
Parsed(kind, steps) ==
    IF kind = "none" THEN NoResult
    ELSE IF kind = "empty" THEN NoRoutes
    ELSE Route(ArrivalOfSteps(steps), FirstDepartureOfSteps(steps),
               SubwayInSteps(steps), NightBusInSteps(steps))

-----------------------------------------------------------------------------
(* Analysis of one answer *)

\* A total duration rejected at the limit already.
MutRejectsAtLimit(result, departure_time, max_total_min, max_wait_min, allow_night_bus, require_subway) ==
    /\ HasRoutes(result)
    /\ ~(~allow_night_bus /\ has_night_bus(result))
    /\ ~(require_subway /\ ~has_subway(result))
    /\ ~IsNone(get_arrival_time(result))
    /\ Val(get_arrival_time(result)) - departure_time < max_total_min * Minute
    /\ \/ IsNone(get_first_departure_time(result))
       \/ Val(get_first_departure_time(result)) - departure_time
              <= max_wait_min * Minute

\* is_valid_route after its query: `result` is what get_transit_route
\* returned for departure_time.
is_valid_route(result, departure_time, max_total_min, max_wait_min, allow_night_bus, require_subway) ==
    IF ~HasRoutes(result) THEN FALSE
    ELSE IF ~allow_night_bus /\ has_night_bus(result) THEN FALSE
    ELSE IF require_subway /\ ~has_subway(result) THEN FALSE
    ELSE LET arrival   == get_arrival_time(result)
             first_dep == get_first_departure_time(result)
         IN  IF IsNone(arrival) THEN FALSE
             \* total_seconds() / 60 > max_total_min
             ELSE IF Val(arrival) - departure_time > max_total_min * Minute
                  THEN FALSE
             ELSE IF /\ ~IsNone(first_dep)
                     /\ Val(first_dep) - departure_time > max_wait_min * Minute
                  THEN FALSE
             ELSE TRUE

\* A failed call taken for a valid route.
MutValidOnFailure(result, departure_time, require_subway) ==
    \/ result.kind = "none"
    \/ is_valid_route(result, departure_time, MaxTotalMin, MaxWaitMin,
                      TRUE, require_subway)

\* The call as find_last_train_time makes it: the defaults 210 and 80,
\* night buses allowed.
Valid(result, departure_time, require_subway) ==
    is_valid_route(result, departure_time, MaxTotalMin, MaxWaitMin,
                   TRUE, require_subway)

\* get_route_duration after its query: whole minutes, or None.
get_route_duration(result, departure_time) ==
    IF result.kind = "none" THEN None
    ELSE LET arrival == get_arrival_time(result)
         IN  IF IsNone(arrival) THEN None
             ELSE Some(IntTrunc(Val(arrival) - departure_time, Minute))

-----------------------------------------------------------------------------
(* The search window *)

\* A window that always holds now: the night that began last, not the
\* coming one.
MutStartNeverAfterNow(now) ==
    IF now < Midnight(now) + StartHour * Hour + StartMinute * Minute
    THEN Midnight(now) - Day + StartHour * Hour + StartMinute * Minute
    ELSE Midnight(now) + StartHour * Hour + StartMinute * Minute

\* start_8pm of find_last_train_time.
WindowStart(now) ==
    IF HourOf(now) >= StartHour
    THEN Midnight(now) + StartHour * Hour + StartMinute * Minute
    ELSE IF HourOf(now) < EndHour
    THEN Midnight(now) - Day + StartHour * Hour + StartMinute * Minute
    ELSE Midnight(now) + StartHour * Hour + StartMinute * Minute

\* end_2am of find_last_train_time, and `end` of find_recommended_time.
WindowEnd(now) ==
    IF HourOf(now) >= StartHour THEN Midnight(now) + Day + EndHour * Hour
    ELSE IF HourOf(now) < EndHour THEN Midnight(now) + EndHour * Hour
    ELSE Midnight(now) + Day + EndHour * Hour

\* `start` of find_recommended_time: now from 20:00 to 02:00, else 20:30.
ScanStart(now) ==
    IF HourOf(now) >= StartHour THEN now
    ELSE IF HourOf(now) < EndHour THEN now
    ELSE Midnight(now) + StartHour * Hour + StartMinute * Minute

\* A midpoint a third of the way up the bracket.
MutMidThird(left, right) == left + (right - left) \div 3

\* mid = left + (right - left) / 2
Mid(left, right) == left + (right - left) \div 2

-----------------------------------------------------------------------------
(* Bounds of the model *)

\* How many queries of one run the route service may answer off schedule
\* (a timeout, an error, a route that fits no timetable).
MaxDeviations == 1

\* The clock readings of one run: datetime.now(KST) as analyze_escape_plan
\* reads it first.  Daytime, the hour before the window opens, inside the
\* window before and after midnight, and seconds before the window closes.
NowSet ==
    { At(1, 3, 0, 0),   At(1, 15, 0, 0),  At(1, 20, 10, 0), At(1, 20, 32, 0),
      At(1, 23, 46, 0), At(2, 0, 30, 0),  At(2, 1, 59, 50) }

\* The last departure of the night of day 1 that still reaches the
\* destination: before the window, inside it (23:15 is the first midpoint,
\* a tick before it the farthest a boundary lies from the midpoint below,
\* 23:47 an instant between two midpoints), at its end and after it.
LastServiceSet ==
    { At(1, 20, 20, 0), At(1, 21, 0, 0), At(1, 23, 15, 0) - 1,
      At(1, 23, 15, 0), At(1, 23, 47, 0), At(2, 0, 40, 0), At(2, 2, 0, 0),
      At(2, 2, 30, 0) }

VARIABLES
    lastService,    \* the route service's timetable: see Scheduled
    devs,           \* queries answered off schedule so far
    queries,        \* calls of get_transit_route so far
    pc,             \* the next query of the run
    now,            \* analyze_escape_plan: now
    data,           \* analyze_escape_plan: data
    fnow,           \* find_last_train_time / find_recommended_time: now
    require_subway, \* find_last_train_time: require_subway
    left, right,    \* find_last_train_time: the bracket
    i,              \* find_last_train_time: iterations of the loop done
    base_duration, best_time, best_duration, check_time,
                    \* find_recommended_time: its locals
    subway, any, recommended,
                    \* find_all_last_trains: the three pairs (time, dur)
    outcome,        \* what analyze_escape_plan returned
    log,            \* history, per find_last_train_time call: see NoCall
    probe           \* one application of is_valid_route: see SpecValid

vars == << lastService, devs, queries, pc, now, data, fnow,
           require_subway, left, right, i, base_duration, best_time,
           best_duration, check_time, subway, any, recommended, outcome, log,
           probe >>

-----------------------------------------------------------------------------
(* The route service *)

\* First departure of service day d, and its last one.
ServiceOpen(d) == At(d, 5, 30, 0)
ServiceEnd(d)  == lastService + (d - 1) * Day

ServiceDays == 0 .. 3

\* The timetable's answer for a departure at T.  While service runs the
\* ride starts within 5 minutes: by subway in 40 minutes, or in the last
\* hour of service by night bus in 65 minutes.  After the last departure
\* the route waits for the first train of the next morning.
Scheduled(T) ==
    LET running == { d \in ServiceDays : ServiceOpen(d) <= T /\ T <= ServiceEnd(d) }
        opens   == { ServiceOpen(d) : d \in { e \in ServiceDays : ServiceOpen(e) >= T } }
        open    == CHOOSE o \in opens : \A o2 \in opens : o <= o2
    IN  IF running # {}
        THEN LET d == CHOOSE e \in running : TRUE
             IN  IF T <= ServiceEnd(d) - Hour
                 THEN Route(Some(T + 40 * Minute), Some(T + 5 * Minute), TRUE, FALSE)
                 ELSE Route(Some(T + 65 * Minute), Some(T + 5 * Minute), FALSE, TRUE)
        ELSE Route(Some(open + 40 * Minute), Some(open), TRUE, FALSE)

\* Answers off schedule for a departure at T: a failed call, a body without
\* routes, a route without transit steps, and routes at and just beyond
\* each limit of the feasibility policy, with and without a subway leg.
OffSchedule(T) ==
    { NoResult, NoRoutes, Route(None, None, FALSE, FALSE),
      Route(Some(T + 40 * Minute), None, TRUE, FALSE),
      Route(Some(T + 61 * Minute), Some(T + 5 * Minute), FALSE, FALSE),
      Route(Some(T + MaxTotalMin * Minute),
            Some(T + MaxWaitMin * Minute), TRUE, FALSE),
      Route(Some(T + (MaxTotalMin + 1) * Minute),
            Some(T + 5 * Minute), TRUE, FALSE),
      Route(Some(T + 120 * Minute),
            Some(T + (MaxWaitMin + 1) * Minute), FALSE, FALSE) }

\* The answers get_transit_route(origin, destination, T) may return now:
\* the scheduled one, or one off schedule while the run has any left.
Replies(T) ==
    { [ans |-> Scheduled(T), dev |-> 0] }
    \cup IF devs < MaxDeviations
         THEN { [ans |-> a, dev |-> 1] : a \in OffSchedule(T) }
         ELSE {}

\* get_transit_route returned the reply r.
Ask(r) ==
    /\ queries' = queries + 1
    /\ devs' = devs + r.dev
    /\ UNCHANGED << lastService, probe >>

-----------------------------------------------------------------------------
(* State of one run *)

\* A pair (time, dur) as find_last_train_time and find_recommended_time
\* return it.
Pair(t, d) == [time |-> t, dur |-> d]
NotFound   == Pair(None, None)

\* History of one call of find_last_train_time or find_recommended_time:
\*   now       the clock reading of the call
\*   asked     the queries it made, `off` of them answered off schedule
\*   steps     the iterations of the bisection loop it ran
\*   validNow  whether is_valid_route passed at now (line 235)
\*   confirmed the instants at which is_valid_route passed
\*   failed    the instants at which is_valid_route's query failed (None)
\*   trail     per iteration of the bisection: the bracket it found and the
\*             instant it queried
\*   basis     the answer from which the returned duration was computed
NoCall == [called |-> FALSE, now |-> 0, asked |-> 0, off |-> 0, steps |-> 0,
           validNow |-> FALSE, confirmed |-> {}, failed |-> {},
           trail |-> << >>, basis |-> NoResult]

Calls == { "subway", "any", "recommended" }

Mode == IF require_subway THEN "subway" ELSE "any"

\* The history after the call `m` got the reply r to one more query.
Logged(m, r, step, passed) ==
    [log EXCEPT ![m].asked = @ + 1,
                ![m].off = @ + r.dev,
                ![m].steps = @ + step,
                ![m].confirmed = @ \cup passed]

\* The history of a call that starts at t with the reply r to its first
\* query.
Opened(t, r) ==
    [NoCall EXCEPT !.called = TRUE, !.now = t, !.asked = 1, !.off = r.dev]

\* One iteration of the bisection: its bracket and the instant it queried.
Probed(l, r, m) == [left |-> l, right |-> r, mid |-> m]

\* {T} when the reply r is a failed call.
FailedAt(r, T) == IF r.ans.kind = "none" THEN {T} ELSE {}

\* The history after is_valid_route(.., T, ..) of the call `m` got the
\* reply r and returned ok.
LoggedCheck(m, r, step, T, ok) ==
    [Logged(m, r, step, IF ok THEN {T} ELSE {})
        EXCEPT ![m].failed = @ \cup FailedAt(r, T)]

\* The history after the call `m` computed the duration it returns from
\* the reply r.
LoggedBasis(m, r, step) ==
    [Logged(m, r, step, {}) EXCEPT ![m].basis = r.ans]

\* What analyze_escape_plan returned: nothing yet ("running"), the text of
\* lines 327-336 ("no_route"), or the report of lines 394-412 with the three
\* pairs it prints and the urgency it chose.
Running == [kind |-> "running", subway |-> NotFound, any |-> NotFound,
            recommended |-> NotFound, urgency |-> "none"]

\* An application of is_valid_route: its arguments and what it returned.
NoProbe == [called |-> FALSE, kind |-> "none", steps |-> << >>,
            departure_time |-> 0, allow_night_bus |-> TRUE,
            require_subway |-> FALSE, returned |-> FALSE]

Init ==
    /\ lastService \in LastServiceSet
    /\ now \in NowSet
    /\ devs = 0
    /\ queries = 0
    /\ pc = "analyze"
    /\ data = NoResult
    /\ fnow = now
    /\ require_subway = TRUE
    /\ left = 0 /\ right = 0 /\ i = 0
    /\ base_duration = None /\ best_time = 0 /\ best_duration = None
    /\ check_time = 0
    /\ subway = NotFound /\ any = NotFound /\ recommended = NotFound
    /\ outcome = Running
    /\ log = [m \in Calls |-> NoCall]
    /\ probe = NoProbe

\* find_last_train_time(origin, destination, rs) starts: it reads the clock
\* (lines 218-232) and sets the bracket to the window.
EnterFind(rs, t) ==
    /\ fnow' = t
    /\ require_subway' = rs
    /\ left' = WindowStart(t)
    /\ right' = WindowEnd(t)
    /\ i' = 0
    /\ pc' = "find_now"

\* find_recommended_time starts: it reads the clock (line 257).
EnterRecommend(t) ==
    /\ fnow' = t
    /\ pc' = "rec_base"
    /\ UNCHANGED << require_subway, left, right, i >>

\* find_last_train_time returns (t, d) to find_all_last_trains, which makes
\* its next call (lines 299-305).
ReturnFind(t, d) ==
    IF require_subway
    THEN /\ subway' = Pair(t, d)
         /\ EnterFind(FALSE, now)
         /\ UNCHANGED << any, recommended >>
    ELSE /\ any' = Pair(t, d)
         /\ EnterRecommend(now)
         /\ UNCHANGED << subway, recommended >>

\* find_recommended_time returns (t, d); analyze_escape_plan goes on.
ReturnRecommend(t, d) ==
    /\ recommended' = Pair(t, d)
    /\ pc' = "report"

-----------------------------------------------------------------------------
(* analyze_escape_plan, lines 321-336: the query at now *)

AnalyzeQuery ==
    /\ pc = "analyze"
    /\ \E r \in Replies(now) :
         /\ Ask(r)
         /\ data' = r.ans
         /\ IF ~HasRoutes(r.ans)
            THEN /\ outcome' = [Running EXCEPT !.kind = "no_route"]
                 /\ pc' = "done"
                 /\ UNCHANGED << fnow, require_subway, left, right, i >>
            ELSE /\ EnterFind(TRUE, now)
                 /\ UNCHANGED outcome
    /\ log' = log
    /\ UNCHANGED << now, base_duration, best_time, best_duration, check_time,
                    subway, any, recommended >>

-----------------------------------------------------------------------------
(* find_last_train_time *)

\* Line 235: is the route valid now?
FindCheckNow ==
    /\ pc = "find_now"
    /\ \E r \in Replies(fnow) :
         /\ Ask(r)
         /\ IF Valid(r.ans, fnow, require_subway)
            THEN /\ pc' = "find_end"
                 /\ log' = [log EXCEPT ![Mode] =
                              [Opened(fnow, r) EXCEPT !.validNow = TRUE,
                                                      !.confirmed = {fnow}]]
                 /\ UNCHANGED << fnow, require_subway, left, right, i,
                                 subway, any, recommended >>
            ELSE /\ log' = [log EXCEPT ![Mode] =
                              [Opened(fnow, r) EXCEPT
                                  !.failed = FailedAt(r, fnow)]]
                 /\ ReturnFind(None, None)
    /\ UNCHANGED << now, data, base_duration, best_time, best_duration,
                    check_time, outcome >>

\* Line 239: is it still valid when the window ends?
FindCheckEnd ==
    /\ pc = "find_end"
    /\ \E r \in Replies(right) :
         /\ Ask(r)
         /\ IF Valid(r.ans, right, require_subway)
            THEN /\ pc' = "find_end_duration"
                 /\ log' = LoggedCheck(Mode, r, 0, right, TRUE)
            ELSE /\ pc' = "find_bisect"
                 /\ log' = LoggedCheck(Mode, r, 0, right, FALSE)
    /\ UNCHANGED << now, data, fnow, require_subway, left, right, i,
                    base_duration, best_time, best_duration, check_time,
                    subway, any, recommended, outcome >>

\* The early return with the lower end of the bracket: return left, duration.
MutFindEndDurationReturnsLeft ==
    /\ pc = "find_end_duration"
    /\ \E r \in Replies(right) :
         /\ Ask(r)
         /\ log' = LoggedBasis(Mode, r, 0)
         /\ ReturnFind(Some(left), get_route_duration(r.ans, right))
    /\ UNCHANGED << now, data, base_duration, best_time, best_duration,
                    check_time, outcome >>

\* Lines 240-241: the duration at the end of the window; return.
FindEndDuration ==
    /\ pc = "find_end_duration"
    /\ \E r \in Replies(right) :
         /\ Ask(r)
         /\ log' = LoggedBasis(Mode, r, 0)
         /\ ReturnFind(Some(right), get_route_duration(r.ans, right))
    /\ UNCHANGED << now, data, base_duration, best_time, best_duration,
                    check_time, outcome >>

\* Lines 244-249: one iteration of the bisection.
FindBisect ==
    /\ pc = "find_bisect"
    /\ i < BisectSteps
    /\ LET mid == Mid(left, right)
       IN  \E r \in Replies(mid) :
             /\ Ask(r)
             /\ IF Valid(r.ans, mid, require_subway)
                THEN /\ left' = mid
                     /\ right' = right
                     /\ log' = [LoggedCheck(Mode, r, 1, mid, TRUE) EXCEPT
                                   ![Mode].trail = Append(@, Probed(left, right, mid))]
                ELSE /\ right' = mid
                     /\ left' = left
                     /\ log' = [LoggedCheck(Mode, r, 1, mid, FALSE) EXCEPT
                                   ![Mode].trail = Append(@, Probed(left, right, mid))]
    /\ i' = i + 1
    /\ pc' = IF i + 1 < BisectSteps THEN "find_bisect" ELSE "find_duration"
    /\ UNCHANGED << now, data, fnow, require_subway, base_duration,
                    best_time, best_duration, check_time, subway, any,
                    recommended, outcome >>

\* Lines 251-252: the duration at left; return.
FindDuration ==
    /\ pc = "find_duration"
    /\ \E r \in Replies(left) :
         /\ Ask(r)
         /\ log' = LoggedBasis(Mode, r, 0)
         /\ ReturnFind(Some(left), get_route_duration(r.ans, left))
    /\ UNCHANGED << now, data, base_duration, best_time, best_duration,
                    check_time, outcome >>

-----------------------------------------------------------------------------
(* find_recommended_time *)

\* A surge only at twice the base.
MutSurgeAtDouble(duration, base) == duration > 2 * base

\* duration > base_duration * 1.5
Surged(duration, base) == 2 * duration > 3 * base

\* Lines 271-278: the base duration at the start of the scan.
RecommendBase ==
    /\ pc = "rec_base"
    /\ LET start == ScanStart(fnow)
       IN  \E r \in Replies(start) :
             /\ Ask(r)
             /\ log' = [log EXCEPT !["recommended"] =
                          [Opened(fnow, r) EXCEPT !.basis = r.ans]]
             /\ LET base == get_route_duration(r.ans, start)
                IN  \* `if not base_duration`: None or 0
                    IF IsNone(base) \/ base = Some(0)
                    THEN /\ ReturnRecommend(None, None)
                         /\ UNCHANGED << base_duration, best_time,
                                         best_duration, check_time >>
                    ELSE /\ base_duration' = base
                         /\ best_time' = start
                         /\ best_duration' = base
                         /\ check_time' = start
                         /\ IF start < WindowEnd(fnow)
                            THEN pc' = "rec_scan" /\ UNCHANGED recommended
                            ELSE ReturnRecommend(Some(start), base)
    /\ UNCHANGED << now, data, fnow, require_subway, left, right, i,
                    subway, any, outcome >>

\* Lines 280-293: one iteration of the scan.
RecommendScan ==
    /\ pc = "rec_scan"
    /\ \E r \in Replies(check_time) :
         /\ Ask(r)
         /\ LET duration == get_route_duration(r.ans, check_time)
                next     == check_time + ScanStepMin * Minute
            IN  IF IsNone(duration) \/ Surged(Val(duration), Val(base_duration))
                THEN /\ ReturnRecommend(Some(best_time), best_duration)
                     /\ log' = Logged("recommended", r, 1, {})
                     /\ UNCHANGED << best_time, best_duration, check_time >>
                ELSE /\ best_time' = check_time
                     /\ log' = LoggedBasis("recommended", r, 1)
                     /\ best_duration' = duration
                     /\ check_time' = next
                     /\ IF next < WindowEnd(fnow)
                        THEN pc' = "rec_scan" /\ UNCHANGED recommended
                        ELSE ReturnRecommend(Some(check_time), duration)
    /\ UNCHANGED << now, data, fnow, require_subway, left, right, i,
                    base_duration, subway, any, outcome >>

-----------------------------------------------------------------------------
(* analyze_escape_plan, lines 345-412: the report *)

\* int((time - now).total_seconds() // 60) if time else 0
MinutesLeft(time) ==
    IF IsNone(time) THEN 0 ELSE (Val(time) - now) \div Minute

\* Lines 371-386.
Urgency(subway_left, any_left) ==
    IF subway_left <= 0
    THEN IF any_left > 0 THEN "subway_ended" ELSE "all_ended"
    ELSE IF subway_left <= 10 THEN "run"
    ELSE IF subway_left <= 30 THEN "hurry"
    ELSE "relaxed"

\* The recommendation printed whatever the any-mode cutoff.
MutKeepsRecommendation(rec, any_pair) == rec

\* Lines 353-354: without an any-mode cutoff the recommendation is dropped.
ReportedRecommendation(rec, any_pair) ==
    IF IsNone(any_pair.time) THEN NotFound ELSE rec

Report ==
    /\ pc = "report"
    /\ outcome' = [kind        |-> "report",
                   subway      |-> subway,
                   any         |-> any,
                   recommended |-> ReportedRecommendation(recommended, any),
                   urgency     |-> Urgency(MinutesLeft(subway.time),
                                           MinutesLeft(any.time))]
    /\ pc' = "done"
    /\ log' = log
    /\ UNCHANGED << lastService, probe, devs, queries, now, data, fnow,
                    require_subway, left, right, i, base_duration, best_time,
                    best_duration, check_time, subway, any, recommended >>

-----------------------------------------------------------------------------

Next ==
    \/ AnalyzeQuery
    \/ FindCheckNow
    \/ FindCheckEnd
    \/ FindEndDuration
    \/ FindBisect
    \/ FindDuration
    \/ RecommendBase
    \/ RecommendScan
    \/ Report

Spec == Init /\ [][Next]_vars

Done == pc = "done"

-----------------------------------------------------------------------------
(* Vocabulary of the properties *)

Found(p) == ~IsNone(p.time)

FindPcs == { "find_now", "find_end", "find_end_duration", "find_bisect",
             "find_duration" }

\* The pair the call m returned, once it has returned.
Result(m) == IF m = "subway" THEN subway
             ELSE IF m = "any" THEN any ELSE recommended

Returned(m) ==
    /\ log[m].called
    /\ IF m = "subway" THEN ~(pc \in FindPcs /\ require_subway)
       ELSE IF m = "any" THEN pc \notin FindPcs
       ELSE pc \in { "report", "done" }

Reported == pc = "done" /\ outcome.kind = "report"

Abs(x) == IF x >= 0 THEN x ELSE -x

\* The duration in minutes of the route analyze_escape_plan got at now.
DurationAtNow == get_route_duration(data, now)

-----------------------------------------------------------------------------
(* C1 *)

\* C1: if the first query, at now, returns no result or no routes, the run
\* makes exactly 1 query, returns the "no route" text and never calls
\* find_last_train_time or find_recommended_time.
C1_NoRouteStopsAfterOneQuery ==
    (pc # "analyze" /\ data.kind # "route")
        => /\ pc = "done"
           /\ queries = 1
           /\ outcome.kind = "no_route"
           /\ \A m \in Calls : ~log[m].called

C1_Witness ==
    /\ pc = "done" /\ data.kind = "empty" /\ queries = 1
    /\ outcome.kind = "no_route"

-----------------------------------------------------------------------------
(* C2 *)

\* C2 as stated: a route exists at now but is analysed invalid; then the
\* run makes exactly 1 query and reports the three results as not found,
\* not as "no route".
C2_OneQueryWhenInvalidNow ==
    (pc = "done" /\ data.kind = "route" /\ ~Valid(data, now, FALSE))
        => /\ queries = 1
           /\ outcome.kind = "report"
           /\ outcome.subway = NotFound
           /\ outcome.any = NotFound
           /\ outcome.recommended = NotFound

\* C2 amended: when a route exists at now the run never returns "no route"
\* and makes at least 4 queries; a find_last_train_time call whose own check
\* at now fails makes that 1 query only (no query at the window's end, no
\* bisection) and its cutoff is reported not found; and when the any-mode
\* cutoff is not found the recommendation is reported not found too.
C2_InvalidNowEndsEachSearch ==
    (pc = "done" /\ data.kind = "route")
        => /\ outcome.kind = "report"
           /\ queries >= 4
           /\ \A m \in { "subway", "any" } :
                ~log[m].validNow
                    => /\ log[m].asked = 1
                       /\ log[m].steps = 0
                       /\ outcome[m] = NotFound
           /\ ~Found(outcome.any) => outcome.recommended = NotFound

C2_Witness ==
    /\ Reported
    /\ ~Valid(data, now, FALSE)
    /\ ~log["subway"].validNow /\ log["subway"].asked = 1
    /\ ~log["any"].validNow /\ log["any"].asked = 1
    /\ Found(recommended)
    /\ outcome.recommended = NotFound

-----------------------------------------------------------------------------
(* C3 *)

\* C3 as stated: when the route is valid at now the run makes exactly 7
\* queries.
C3_SevenQueries ==
    (Reported /\ Valid(data, now, FALSE)) => queries = 7

\* C3 amended: a find_last_train_time call that finds the route valid at
\* now makes exactly 9 queries when the route is invalid at the window's end
\* (now, end, 6 midpoints, the duration at the cutoff), wherever the boundary
\* lies, and exactly 3 when it is valid there (now, end, the duration at
\* end); the run makes 1 query plus those of its two cutoff searches plus
\* the 1 to 13 of the recommendation scan (its base query and at most 12
\* steps of 30 minutes, from 20:00 to 02:00).
C3_QueriesPerSearch ==
    Reported
        => /\ \A m \in { "subway", "any" } :
                log[m].validNow
                    => \/ /\ log[m].asked = 9 /\ log[m].steps = 6
                          /\ WindowEnd(log[m].now) \notin log[m].confirmed
                       \/ /\ log[m].asked = 3 /\ log[m].steps = 0
                          /\ WindowEnd(log[m].now) \in log[m].confirmed
           /\ log["recommended"].asked \in 1 .. 13
           /\ queries = 1 + log["subway"].asked + log["any"].asked
                          + log["recommended"].asked

C3_Witness ==
    /\ Reported
    /\ Valid(data, now, FALSE)
    /\ devs = 0
    /\ log["subway"].asked = 9
    /\ log["any"].asked = 9
    /\ queries > 7

-----------------------------------------------------------------------------
(* C4 *)

\* C4: when the any-mode search gets only scheduled answers (valid for
\* every departure up to lastService, invalid after it), lastService lies in
\* its window and the route is valid at now, the cutoff it returns is within
\* (end - start) / 64 of lastService; for the boundary 23:47 it lies in
\* [23:42, 23:52].
C4_CutoffWithinPrecision ==
    LET start == WindowStart(log["any"].now)
        end   == WindowEnd(log["any"].now)
    IN  ( /\ Returned("any")
          /\ log["any"].off = 0
          /\ log["any"].validNow
          /\ start <= lastService /\ lastService <= end )
            => /\ Found(any)
               /\ 64 * Abs(Val(any.time) - lastService) <= end - start
               /\ lastService = At(1, 23, 47, 0)
                    => /\ At(1, 23, 42, 0) <= Val(any.time)
                       /\ Val(any.time) <= At(1, 23, 52, 0)

C4_Witness ==
    /\ Returned("any")
    /\ log["any"].off = 0
    /\ log["any"].validNow
    /\ log["any"].steps = 6
    /\ lastService = At(1, 23, 47, 0)
    /\ Found(any)
    /\ Val(any.time) # lastService

-----------------------------------------------------------------------------
(* C5 *)

\* C5: in the result of find_all_last_trains a subway cutoff is never found
\* while the any-mode cutoff is not found or is earlier.
C5_SubwayNotAfterAny ==
    Reported
        => ~( /\ Found(outcome.subway)
              /\ \/ ~Found(outcome.any)
                 \/ Val(outcome.any.time) < Val(outcome.subway.time) )

-----------------------------------------------------------------------------
(* C6 *)

\* C6 as stated: a reported recommendation takes at most 1.5 times as long
\* as the route departing at now.
C6_WithinOneAndAHalfOfNow ==
    (Reported /\ Found(outcome.recommended) /\ ~IsNone(DurationAtNow))
        => /\ ~IsNone(outcome.recommended.dur)
           /\ 2 * Val(outcome.recommended.dur) <= 3 * Val(DurationAtNow)

\* C6 amended: a reported recommendation takes at most 1.5 times the base
\* duration, which find_recommended_time measures with its own query at the
\* start of its scan: at now from 20:00 to 02:00, at 20:30 in the daytime.
C6_WithinOneAndAHalfOfBase ==
    (Reported /\ Found(outcome.recommended))
        => /\ ~IsNone(outcome.recommended.dur)
           /\ ~IsNone(base_duration)
           /\ 2 * Val(outcome.recommended.dur) <= 3 * Val(base_duration)

C6_Witness ==
    /\ Reported
    /\ Found(outcome.recommended)
    /\ ScanStart(log["recommended"].now) # now
    /\ ~IsNone(DurationAtNow)
    /\ 2 * Val(outcome.recommended.dur) > 3 * Val(DurationAtNow)
    /\ Val(outcome.recommended.time) > ScanStart(log["recommended"].now)

-----------------------------------------------------------------------------
(* C7 *)

\* The local time of day of t lies in the night window's hours.
AtNight(t) ==
    \/ t % Day >= StartHour * Hour + StartMinute * Minute
    \/ t % Day < EndHour * Hour

\* C7 as stated: the window of find_last_train_time has start < end and
\* start <= now <= end.
C7_NowInsideWindow ==
    \A m \in { "subway", "any" } :
        log[m].called
            => /\ WindowStart(log[m].now) < WindowEnd(log[m].now)
               /\ WindowStart(log[m].now) <= log[m].now
               /\ log[m].now <= WindowEnd(log[m].now)

\* C7 amended: the window is 5 hours 30 minutes wide (start < end) and now
\* is before its end; start <= now exactly when the local time of now is
\* 20:30 or later, or before 02:00.  From 02:00 up to 20:30 the window is
\* the coming night and now lies before its start, by less than a day.
C7_WindowOfTheNight ==
    \A m \in { "subway", "any" } :
        log[m].called
            => LET start == WindowStart(log[m].now)
                   end   == WindowEnd(log[m].now)
               IN  /\ start < end
                   /\ end - start = 5 * Hour + 30 * Minute
                   /\ log[m].now < end
                   /\ (start <= log[m].now) <=> AtNight(log[m].now)
                   /\ start - log[m].now < Day

C7_Witness ==
    /\ log["any"].called
    /\ log["any"].now < WindowStart(log["any"].now)
    /\ HourOf(log["any"].now) = StartHour

-----------------------------------------------------------------------------
(* C8 *)

\* C8: a cutoff instant that find_last_train_time returns is an instant at
\* which is_valid_route passed during that same search.
C8_CutoffWasConfirmed ==
    \A m \in { "subway", "any" } :
        (Returned(m) /\ Found(Result(m)))
            => Val(Result(m).time) \in log[m].confirmed

-----------------------------------------------------------------------------
(* C9 *)

\* C9: when the route is valid at now, the cutoff returned for that policy
\* is not earlier than now.
C9_CutoffNotBeforeNow ==
    \A m \in { "subway", "any" } :
        (Returned(m) /\ log[m].validNow)
            => /\ Found(Result(m))
               /\ Val(Result(m).time) >= log[m].now

-----------------------------------------------------------------------------
(* C10 *)

\* C10: each of the three results of find_all_last_trains is a complete
\* pair (instant, minutes) or not found; none has an instant without a
\* duration.
C10_PairsAreComplete ==
    pc \in { "report", "done" }
        => \A m \in Calls :
              log[m].called => (IsNone(Result(m).time) <=> IsNone(Result(m).dur))

-----------------------------------------------------------------------------
(* C11 *)

\* C11: once is_valid_route passed at now, a query of a later validity
\* check that fails (get_transit_route returns None) counts as invalid at
\* its instant, and the search goes on: the instant is never confirmed nor
\* returned, the call makes all its 3 or 9 queries and returns a cutoff
\* instant, and the run does not end as "no route".
C11_FailedQueryIsInvalidThere ==
    \A m \in { "subway", "any" } :
        log[m].validNow
            => /\ log[m].failed \cap log[m].confirmed = {}
               /\ outcome.kind # "no_route"
               /\ Returned(m)
                    => /\ Found(Result(m))
                       /\ Val(Result(m).time) \notin log[m].failed
                       /\ log[m].asked \in { 3, 9 }

C11_Witness ==
    /\ Reported
    /\ log["any"].validNow
    /\ log["any"].failed # {}
    /\ log["any"].steps = 6
    /\ Found(outcome.any)

-----------------------------------------------------------------------------
(* C12 *)

\* C12: when the route is valid at now and is_valid_route passes at the end
\* of the window, find_last_train_time returns that end instant as the
\* cutoff and queries no midpoint: its 3 queries are at now, at the end and
\* for the duration at the end.
C12_ValidAtEndReturnsEnd ==
    \A m \in { "subway", "any" } :
        (log[m].validNow /\ WindowEnd(log[m].now) \in log[m].confirmed)
            => /\ log[m].trail = << >>
               /\ log[m].steps = 0
               /\ Returned(m)
                    => /\ Result(m).time = Some(WindowEnd(log[m].now))
                       /\ log[m].asked = 3

C12_Witness ==
    /\ Returned("subway")
    /\ log["subway"].validNow
    /\ WindowEnd(log["subway"].now) \in log["subway"].confirmed
    /\ subway.time = Some(WindowEnd(log["subway"].now))

-----------------------------------------------------------------------------
(* C13 *)

\* The bracket an iteration leaves behind: the upper or the lower half of
\* the bracket it probed.
HalfOf(p, l, r) ==
    \/ l = p.mid /\ r = p.right
    \/ l = p.left /\ r = p.mid

\* C13: when the loop of find_last_train_time runs, it makes exactly 6
\* iterations, each of them one query at the midpoint of the bracket it
\* finds; start <= left < right <= end throughout, each iteration keeps one
\* end of the bracket and moves the other to the midpoint (left never
\* decreases, right never increases), and after the 6th iteration
\* right - left = (end - start) / 64.
C13_SixHalvings ==
    /\ pc \in { "find_bisect", "find_duration" }
         => LET t     == log[Mode].trail
                start == WindowStart(fnow)
                end   == WindowEnd(fnow)
            IN  /\ start <= left /\ left < right /\ right <= end
                /\ i = Len(t) /\ i = log[Mode].steps
                /\ log[Mode].asked = 2 + i
                /\ pc = "find_bisect" => i < 6
                /\ pc = "find_duration"
                     => i = 6 /\ 64 * (right - left) = end - start
                /\ \A k \in 1..Len(t) :
                     /\ 2 * t[k].mid = t[k].left + t[k].right
                     /\ start <= t[k].left /\ t[k].right <= end
                     /\ IF k = 1
                        THEN t[k].left = start /\ t[k].right = end
                        ELSE HalfOf(t[k-1], t[k].left, t[k].right)
                     /\ k = Len(t) => HalfOf(t[k], left, right)
                     /\ \A j \in 1..Len(t) : t[j].mid = t[k].mid => j = k
    /\ \A m \in { "subway", "any" } :
         Returned(m) => /\ log[m].steps \in { 0, 6 }
                        /\ Len(log[m].trail) = log[m].steps

C13_Witness ==
    /\ pc = "find_duration"
    /\ i = 6
    /\ left > WindowStart(fnow)
    /\ right < WindowEnd(fnow)
    /\ 64 * (right - left) = WindowEnd(fnow) - WindowStart(fnow)

-----------------------------------------------------------------------------
(* C14 *)

\* C14: when the report has both a recommended departure and an any-mode
\* cutoff, the recommended instant is not later than the cutoff instant.
C14_RecommendedNotAfterCutoff ==
    (Reported /\ Found(outcome.recommended) /\ Found(outcome.any))
        => Val(outcome.recommended.time) <= Val(outcome.any.time)

-----------------------------------------------------------------------------
(* C15 *)

\* C15: a recommended departure instant that is reported is one whose
\* route passes is_valid_route under the any-mode policy (at most 210
\* minutes in total, at most 80 minutes of wait for the first leg).
C15_RecommendedIsValid ==
    (Reported /\ Found(outcome.recommended))
        => Valid(log["recommended"].basis, Val(outcome.recommended.time), FALSE)

-----------------------------------------------------------------------------
(* is_valid_route on its own *)

\* The instant the applications of is_valid_route ask about.
ProbeTime == At(1, 23, 0, 0)

\* The departureTime and arrivalTime of a step: at and just over the two
\* limits, absent and malformed ones.
ProbeTimes ==
    { << None, None >>,
      << None, Some(ProbeTime + MaxTotalMin * Minute) >>,
      << None, Some(ProbeTime + MaxTotalMin * Minute + 1) >>,
      << Some(ProbeTime + MaxWaitMin * Minute),
         Some(ProbeTime + MaxTotalMin * Minute) >>,
      << Some(ProbeTime + MaxWaitMin * Minute + 1),
         Some(ProbeTime + 40 * Minute) >>,
      << Malformed, Some(ProbeTime + 40 * Minute) >>,
      << Some(ProbeTime + MaxWaitMin * Minute), Malformed >>,
      << Some(ProbeTime + 5 * Minute), None >> }

\* The lines of a step: a night bus, a day bus, a subway line whose name
\* starts with N, a train.
ProbeLines ==
    { << "BUS", TRUE >>, << "BUS", FALSE >>,
      << "SUBWAY", TRUE >>, << "RAIL", FALSE >> }

ProbeSteps ==
    { WalkStep } \cup
    { TransitStep(l[1], l[2], t[1], t[2]) : l \in ProbeLines, t \in ProbeTimes }

\* Routes of at most MaxSteps steps.
MaxSteps == 2
ProbeRoutes == UNION { [1..n -> ProbeSteps] : n \in 0..MaxSteps }

\* One application of is_valid_route to an answer of the route service.
InitValid ==
    /\ lastService = At(1, 23, 15, 0)
    /\ now = ProbeTime
    /\ devs = 0
    /\ queries = 0
    /\ pc = "probe"
    /\ data = NoResult
    /\ fnow = now
    /\ require_subway = TRUE
    /\ left = 0 /\ right = 0 /\ i = 0
    /\ base_duration = None /\ best_time = 0 /\ best_duration = None
    /\ check_time = 0
    /\ subway = NotFound /\ any = NotFound /\ recommended = NotFound
    /\ outcome = Running
    /\ log = [m \in Calls |-> NoCall]
    /\ \E k \in { "none", "empty", "route" }, a, rs \in BOOLEAN :
         \E st \in (IF k = "route" THEN ProbeRoutes ELSE { << >> }) :
            probe = [NoProbe EXCEPT !.kind = k, !.steps = st,
                                    !.departure_time = ProbeTime,
                                    !.allow_night_bus = a,
                                    !.require_subway = rs]

\* Lines 169-198 with the answer of line 169 given.
IsValidRouteCall ==
    /\ pc = "probe"
    /\ ~probe.called
    /\ probe' = [probe EXCEPT
                   !.called = TRUE,
                   !.returned = is_valid_route(
                       Parsed(probe.kind, probe.steps), probe.departure_time,
                       MaxTotalMin, MaxWaitMin,
                       probe.allow_night_bus, probe.require_subway)]
    /\ UNCHANGED << lastService, devs, queries, pc, now, data, fnow,
                    require_subway, left, right, i, base_duration, best_time,
                    best_duration, check_time, subway, any, recommended,
                    outcome, log >>

NextValid == IsValidRouteCall

SpecValid == InitValid /\ [][NextValid]_vars

-----------------------------------------------------------------------------
(* C16 *)

\* The steps of the probed answer that carry an arrival time, and a
\* departure time.
WithArrival ==
    { k \in 1..Len(probe.steps) :
        probe.steps[k].transit /\ probe.steps[k].arrivalTime # None }
WithDeparture ==
    { k \in 1..Len(probe.steps) :
        probe.steps[k].transit /\ probe.steps[k].departureTime # None }
LastOf(S)  == CHOOSE k \in S : \A j \in S : j <= k
FirstOf(S) == CHOOSE k \in S : \A j \in S : k <= j

\* C16: is_valid_route returns false exactly when the service gave no
\* result or zero routes, or no arrival of the last leg can be extracted,
\* or the arrival is more than 210 minutes after the departure asked for,
\* or a first departure is present and more than 80 minutes after it, or
\* require_subway is set and no leg is SUBWAY or RAIL, or night buses are
\* not allowed and a BUS leg has a line name that starts with N; in every
\* other case it returns true.
C16_RejectsExactly ==
    probe.called =>
        LET T        == probe.departure_time
            arrival  == IF WithArrival = {} THEN None
                        ELSE probe.steps[LastOf(WithArrival)].arrivalTime
            first    == IF WithDeparture = {} THEN None
                        ELSE probe.steps[FirstOf(WithDeparture)].departureTime
            rejected ==
                \/ probe.kind \in { "none", "empty" }
                \/ Len(arrival) # 1
                \/ Len(arrival) = 1 /\ arrival[1] - T > 210 * Minute
                \/ Len(first) = 1 /\ first[1] - T > 80 * Minute
                \/ /\ probe.require_subway
                   /\ \A k \in 1..Len(probe.steps) :
                        ~ probe.steps[k].transit
                        \/ probe.steps[k].vehicle \notin { "SUBWAY", "RAIL" }
                \/ /\ ~probe.allow_night_bus
                   /\ \E k \in 1..Len(probe.steps) :
                        /\ probe.steps[k].transit
                        /\ probe.steps[k].vehicle = "BUS"
                        /\ probe.steps[k].nameN
        IN  probe.returned = ~rejected

\* An accepted route at both limits, with a night line that is no bus.
C16_Witness ==
    /\ probe.called
    /\ probe.returned
    /\ ~probe.allow_night_bus
    /\ probe.require_subway
    /\ Len(probe.steps) = 2
    /\ probe.steps[1] = TransitStep("SUBWAY", TRUE,
                                    Some(ProbeTime + 80 * Minute), Malformed)
    /\ probe.steps[2].arrivalTime = Some(ProbeTime + 210 * Minute)

-----------------------------------------------------------------------------
(* C17 *)

\* The run as the interpreter executes it: a call that can take its next
\* step takes it (every query returns: requests.post has timeout=10 and
\* get_transit_route catches every exception).
FairSpec == Spec /\ WF_vars(Next)

\* C17 as stated: a run of analyze_escape_plan always terminates and makes
\* at most 25 queries.
C17_AtMost25Queries == [](queries <= 25) /\ <>Done

\* C17: a run of analyze_escape_plan always terminates and makes at most
\* 32 queries: 1 of analyze_escape_plan itself, at most 9 of each of the
\* two calls of find_last_train_time and at most 13 of
\* find_recommended_time.
C17_TerminatesWithin32Queries ==
    /\ [](queries <= 32)
    /\ [](queries = log["subway"].asked + log["any"].asked
                      + log["recommended"].asked + 1
            \/ pc = "analyze")
    /\ <>Done

C17_Witness == Done /\ queries = 32 /\ log["recommended"].asked = 13

-----------------------------------------------------------------------------
(* C18 *)

\* C18: the report says that everything has ended only if the any-mode
\* is_valid_route at now failed, and that the subway has ended only if the
\* subway-mode is_valid_route at now failed.
C18_EndedOnlyIfInvalidNow ==
    Reported
        => /\ outcome.urgency = "all_ended" => ~log["any"].validNow
           /\ outcome.urgency \in { "subway_ended", "all_ended" }
                => ~log["subway"].validNow

=============================================================================
